---- MODULE Spec2Model ----
(***************************************************************************)
(* A model of the parcels example scripts:                                 *)
(*   scripts/pull_data.py          the example-data downloader             *)
(*   tests/test_multi_filename.py  simple_grid and multi_filename          *)
(*   tests/test_stommel.py         stommel_grid, streamfunction form       *)
(*   examples/test_stommel.py      stommel_grid, boundary-layer form       *)
(* One behaviour runs one of the programs; Init chooses which (script).    *)
(* The sources are Python 2 (print statements, urllib2): "/" between two   *)
(* ints is floor division.                                                 *)
(***************************************************************************)
EXTENDS Integers, Sequences, FiniteSets, TLC

VARIABLES
    script,     \* which program this behaviour runs
    pc,         \* the position of the running program
    \* ---- scripts/pull_data.py
    run,        \* number of the current run of the script (one process each)
    fn,         \* import function being executed, 1..3 in the order of __main__
    filecount,  \* filecount of the running import function
    fs,         \* file name -> content of the file on disk
    dirs,       \* existing target directories
    reqs,       \* history: file name -> urlopen calls of the current run
    fs0,        \* history: fs when the running import function was entered
    skipped,    \* history: files the current run reported "already exists"
    started,    \* history: import functions the current run has entered
    failedAt,   \* history: <<fn, filecount>> where a request or write failed
    \* ---- the grid synthesizers
    args,       \* the arguments of the call: xdim, ydim, ndays, startday
    xs, ys,     \* samples standing for the closed forms in lon[i] and in lat[j]
    lon, lat, time,     \* the coordinate axes (locals of the synthesizer)
    U, V, P,    \* the field arrays (locals of the synthesizer)
    t, i,       \* the loop variables
    writes,     \* history: array name -> cell -> assignments to the cell
    grid,       \* the grid handle the caller holds
    \* ---- multi_filename
    disk,       \* file name -> what Grid.write stored
    loaded      \* the value of the from_netcdf call expression

fetchVars == <<run, fn, filecount, fs, dirs, reqs, fs0, skipped, started, failedAt>>
synthVars == <<args, xs, ys, lon, lat, time, U, V, P, t, i, writes, grid>>
multiVars == <<disk, loaded>>
vars == <<script, pc, fetchVars, synthVars, multiVars>>

----------------------------------------------------------------------------
(* Bounds *)

\* days of the globcurrent date range (365 in the source: 2002-01-01..2003-01-01)
GlobcurrentDays == 2
\* runs of pull_data.py in one behaviour
MaxRuns == 2
\* the largest xdim and ydim of a synthesizer call
MaxDim == 3
\* the largest ndays and startday of a simple_grid call
MaxDays == 3
MaxStart == 2
\* xdim and ydim of the grids multi_filename builds (the defaults 200 and 350)
GridXdim == 2
GridYdim == 2

----------------------------------------------------------------------------
(* scripts/pull_data.py *)

\* dt.strftime("%Y%m%d") for dt = 2002-01-01 + d days, d < 6; the constant
\* suffix "000000-GLOBCURRENT-L4-CUReul_hs-ALT_SUM-v02.0-fv01.0.nc" is left out
Strftime(d) ==
    <<"20020101", "20020102", "20020103", "20020104", "20020105", "20020106">>[d + 1]

\* the while loop of import_globcurrent_example: dt = start; while dt < end: append
RECURSIVE GlobcurrentNames(_, _)
GlobcurrentNames(dt, end) ==
    IF dt < end THEN <<Strftime(dt)>> \o GlobcurrentNames(dt + 1, end) ELSE <<>>

\* the filenames list of each import function
Filenames(f) ==
    CASE f = 1 -> <<"moving_eddiesP.nc", "moving_eddiesU.nc", "moving_eddiesV.nc">>
      [] f = 2 -> GlobcurrentNames(0, GlobcurrentDays)
      [] f = 3 -> <<"OFAM_simple_U.nc", "OFAM_simple_V.nc">>

\* the path of each import function
Path(f) ==
    CASE f = 1 -> "examples/MovingEddies_data"
      [] f = 2 -> "examples/GlobCurrent_example_data"
      [] f = 3 -> "examples/OFAM_example_data"

\* __main__ calls the three import functions in this order
MainSequence == <<1, 2, 3>>

Range(s) == {s[k] : k \in 1..Len(s)}
AllFiles == UNION {Range(Filenames(f)) : f \in Range(MainSequence)}

\* A listed file is "absent", "empty" (opened 'wb', nothing written yet),
\* "partial" (a part of the download) or "complete" (the whole download).

\* a mutant of Exists: the check never finds the file
ExistsNever(name) == FALSE

\* os.path.exists(os.path.join(path, filename))
Exists(name) == fs[name] # "absent"

\* a mutant of AfterFailure: the error is swallowed and the loop goes on
AfterFailureContinue == "for"

\* no try/except around the loop body: an exception of urlopen, open, read or
\* write leaves the import function and __main__, and the process ends
AfterFailure == "crashed"

\* the file the loop body is working on
Current == Filenames(fn)[filecount]

Fail ==
    /\ pc' = AfterFailure
    /\ failedAt' = <<fn, filecount>>

\* a new process runs __main__
StartRun ==
    /\ script = "pull_data"
    /\ pc \in {"done", "crashed"}
    /\ run < MaxRuns
    /\ run' = run + 1
    /\ pc' = "enter"
    /\ fn' = 1
    /\ filecount' = 0
    /\ reqs' = [n \in AllFiles |-> 0]
    /\ skipped' = {}
    /\ started' = {}
    /\ failedAt' = <<>>
    /\ UNCHANGED <<synthVars, multiVars, script, fs, dirs, fs0>>

\* the head of an import function: url, filenames, path, makedirs, filecount = 0
Enter ==
    /\ script = "pull_data"
    /\ pc = "enter"
    /\ started' = started \cup {fn}
    /\ fs0' = fs
    /\ filecount' = 0
    /\ \/ /\ Path(fn) \in dirs
          /\ pc' = "for"
          /\ UNCHANGED <<dirs, failedAt>>
       \/ /\ Path(fn) \notin dirs
          /\ dirs' = dirs \cup {Path(fn)}
          /\ pc' = "for"
          /\ UNCHANGED failedAt
       \/ /\ Path(fn) \notin dirs          \* os.makedirs raises OSError
          /\ pc' = AfterFailure
          /\ failedAt' = <<fn, 0>>
          /\ UNCHANGED dirs
    /\ UNCHANGED <<synthVars, multiVars, script, run, fn, fs, reqs, skipped>>

\* for filename in filenames: filecount += 1; the os.path.exists test; the
\* else branch only prints
For ==
    /\ script = "pull_data"
    /\ pc = "for"
    /\ \/ /\ filecount < Len(Filenames(fn))
          /\ filecount' = filecount + 1
          /\ LET name == Filenames(fn)[filecount + 1] IN
             IF ~Exists(name)
             THEN pc' = "urlopen" /\ UNCHANGED skipped
             ELSE pc' = "for" /\ skipped' = skipped \cup {name}
       \/ /\ filecount = Len(Filenames(fn))
          /\ pc' = "return"
          /\ UNCHANGED <<filecount, skipped>>
    /\ UNCHANGED <<synthVars, multiVars, script, run, fn, fs, dirs, reqs, fs0, started, failedAt>>

\* f = urllib2.urlopen(url + "/" + filename)
Urlopen ==
    /\ script = "pull_data"
    /\ pc = "urlopen"
    /\ reqs' = [reqs EXCEPT ![Current] = @ + 1]
    /\ \/ pc' = "open" /\ UNCHANGED failedAt
       \/ Fail                              \* URLError, HTTPError
    /\ UNCHANGED <<synthVars, multiVars, script, run, fn, filecount, fs, dirs, fs0, skipped, started>>

\* with open(os.path.join(path, filename), 'wb') as temp_file
Open ==
    /\ script = "pull_data"
    /\ pc = "open"
    /\ \/ /\ fs' = [fs EXCEPT ![Current] = "empty"]
          /\ pc' = "read"
          /\ UNCHANGED failedAt
       \/ /\ Fail                           \* IOError: nothing is created
          /\ UNCHANGED fs
    /\ UNCHANGED <<synthVars, multiVars, script, run, fn, filecount, dirs, reqs, fs0, skipped, started>>

\* f.read(), evaluated inside the with block, after the file was opened
Read ==
    /\ script = "pull_data"
    /\ pc = "read"
    /\ \/ pc' = "write" /\ UNCHANGED failedAt
       \/ Fail                              \* the connection breaks
    /\ UNCHANGED <<synthVars, multiVars, script, run, fn, filecount, fs, dirs, reqs, fs0, skipped, started>>

\* temp_file.write(...), the end of the with block and the "written" print
WriteFile ==
    /\ script = "pull_data"
    /\ pc = "write"
    /\ \/ /\ fs' = [fs EXCEPT ![Current] = "complete"]
          /\ pc' = "for"
          /\ UNCHANGED failedAt
       \/ /\ \E left \in {"empty", "partial"} :   \* IOError, e.g. the disk is full
                fs' = [fs EXCEPT ![Current] = left]
          /\ Fail
    /\ UNCHANGED <<synthVars, multiVars, script, run, fn, filecount, dirs, reqs, fs0, skipped, started>>

\* the import function returns; __main__ calls the next one or ends
Return ==
    /\ script = "pull_data"
    /\ pc = "return"
    /\ \/ /\ fn < Len(MainSequence)
          /\ fn' = fn + 1
          /\ pc' = "enter"
       \/ /\ fn = Len(MainSequence)
          /\ pc' = "done"
          /\ UNCHANGED fn
    /\ UNCHANGED <<synthVars, multiVars, script, run, filecount, fs, dirs, reqs, fs0, skipped, started, failedAt>>

FetchInit ==
    /\ run = 1
    /\ fn = 1
    /\ filecount = 0
    /\ fs = [n \in AllFiles |-> "absent"]
    /\ dirs = {}
    /\ reqs = [n \in AllFiles |-> 0]
    /\ fs0 = [n \in AllFiles |-> "absent"]
    /\ skipped = {}
    /\ started = {}
    /\ failedAt = <<>>

FetchNext ==
    \/ StartRun
    \/ Enter
    \/ For
    \/ Urlopen
    \/ Open
    \/ Read
    \/ WriteFile
    \/ Return

----------------------------------------------------------------------------
(* Numbers and arrays *)

\* A float is modelled as the exact quotient <<num, den>> in lowest terms with
\* den > 0; rounding to float32/float64 is not modelled. A division by zero
\* gives numpy's inf, -inf or nan: <<1, 0>>, <<-1, 0>>, <<0, 0>>.
Abs(n) == IF n < 0 THEN -n ELSE n
Sign(n) == IF n < 0 THEN -1 ELSE IF n > 0 THEN 1 ELSE 0

RECURSIVE Gcd(_, _)
Gcd(m, n) == IF n = 0 THEN m ELSE Gcd(n, m % n)

Quot(n, d) ==
    IF d = 0 THEN <<Sign(n), 0>>
    ELSE LET g == Gcd(Abs(n), Abs(d))
         IN  <<(Sign(d) * n) \div g, Abs(d) \div g>>

Zero == <<0, 1>>
RatSub(p, q) == Quot(p[1] * q[2] - q[1] * p[2], p[2] * q[2])
RatNeg(p) == <<-p[1], p[2]>>
RatDivInt(p, d) == Quot(p[1], p[2] * d)
RatLess(p, q) == p[1] * q[2] < q[1] * p[2]

\* the index triples of an array of the given shape (0-based, as in the source)
Cells(shape) == (0..(shape[1] - 1)) \X (0..(shape[2] - 1)) \X (0..(shape[3] - 1))

\* np.zeros(shape, dtype=np.float32)
Zeros(shape) == [shape |-> shape, data |-> [c \in Cells(shape) |-> Zero]]

\* np.linspace(start, stop, num) for num >= 0: num evenly spaced samples, both
\* ends included (a negative num raises ValueError, see the callers)
Linspace(start, stop, num) ==
    [k \in 1..num |->
        IF num = 1 THEN Quot(start, 1)
        ELSE Quot(start * (num - 1) + (k - 1) * (stop - start), num - 1)]

\* ceil(n / d) for d > 0
CeilDiv(n, d) == -((-n) \div d)

\* a mutant of Arange: the stop value is included
ArangeInclusive(start, stop, step) ==
    [k \in 1..(CeilDiv(stop - start, step) + 1) |-> Quot(start + (k - 1) * step, 1)]

\* np.arange(start, stop, step) for step > 0: start + k*step for
\* 0 <= k < ceil((stop - start) / step), nothing when stop <= start
Arange(start, stop, step) ==
    [k \in 1..CeilDiv(stop - start, step) |-> Quot(start + (k - 1) * step, 1)]

\* a mutant of FieldShape: the first two axes are exchanged
FieldShapeTransposed(lo, la, ti) == <<Len(la), Len(lo), Len(ti)>>

\* the shape tuple (lon.size, lat.size, time.size) given to np.zeros
FieldShape(lo, la, ti) == <<Len(lo), Len(la), Len(ti)>>

\* Grid.from_data(U, lon, lat, V, lon, lat, depth, time, field_data=...): the
\* handle holds what the constructor was given
FromData(u, lonU, latU, v, lonV, latV, depth, ti, fieldData) ==
    [U |-> u, lonU |-> lonU, latU |-> latU, V |-> v, lonV |-> lonV, latV |-> latV,
     depth |-> depth, time |-> ti, field_data |-> fieldData]

\* no handle
NoGrid == FromData(Zeros(<<0, 0, 0>>), <<>>, <<>>, Zeros(<<0, 0, 0>>), <<>>, <<>>,
                   <<>>, <<>>, <<>>)

NoWrites == [a \in {"U", "V", "P"} |-> <<>>]
CountsFor(shape) == [a \in {"U", "V", "P"} |-> [c \in Cells(shape) |-> 0]]

\* the assignments of one step: every cell of array a in the set cs once more
Count(a, cs) ==
    [writes EXCEPT ![a] = [c \in DOMAIN @ |-> IF c \in cs THEN @[c] + 1 ELSE @[c]]]

----------------------------------------------------------------------------
(* tests/test_multi_filename.py: simple_grid *)

SecondsPerDay == 86400

\* a mutant of DayOf: the division by 86400 is forgotten
DayOfSeconds(ti, tt) == ti[tt + 1]

\* time[t] / 86400.
DayOf(ti, tt) == RatDivInt(ti[tt + 1], SecondsPerDay)

\* simple_grid(xdim, ydim, ndays, startday) for xdim, ydim >= 0
SimpleGrid(xdim, ydim, ndays, startday) ==
    LET depth  == <<Zero>>
        ti     == Arange(startday * SecondsPerDay, (startday + ndays) * SecondsPerDay,
                         SecondsPerDay)
        lo     == Linspace(0, 4, xdim)
        la     == Linspace(45, 52, ydim)
        shape  == FieldShape(lo, la, ti)
        \* U = zeros, then for t in range(time.size): U[:, :, t] = time[t] / 86400.
        u      == [shape |-> shape, data |-> [c \in Cells(shape) |-> DayOf(ti, c[3])]]
        v      == Zeros(shape)
        p      == Zeros(shape)
    IN  FromData(u, lo, la, v, lo, la, depth, ti, [n \in {"P"} |-> p])

\* np.linspace raises ValueError for a negative number of samples
LinspaceRaises(xdim, ydim) == xdim < 0 \/ ydim < 0

\* a call of simple_grid
CallSimpleGrid ==
    /\ script = "simple_grid"
    /\ pc = "call"
    /\ IF LinspaceRaises(args.xdim, args.ydim)
       THEN pc' = "ValueError" /\ UNCHANGED grid
       ELSE /\ grid' = SimpleGrid(args.xdim, args.ydim, args.ndays, args.startday)
            /\ pc' = "returned"
    /\ UNCHANGED <<script, fetchVars, multiVars,
                   args, xs, ys, lon, lat, time, U, V, P, t, i, writes>>

----------------------------------------------------------------------------
(* tests/test_stommel.py: stommel_grid, the streamfunction form *)

\* A = 100, a = 10000, b = 10000
A == 100
a == 10000
b == 10000
\* time = np.linspace(0., 100000. * 86400., 2), kept in days
StommelDays == 100000

\* the "/" of two Python 2 ints: floor division
IntDiv(m, n) == m \div n

\* P[i, j, t] = A * (c1*exp(l1*xi) + c2*exp(l2*xi) + 1) * sin(pi * yi): the factor
\* in xi = lon[i]/a is the sample xs[i], the factor in yi = lat[j]/b the sample ys[j]
Psi(ii, jj) == Quot(A * xs[ii + 1] * ys[jj + 1], 1)

\* a mutant of VColumn: V[i, j, t] is written instead of V[i+1, j, t]
VColumnOff(ii) == ii

\* the column V's loop writes in iteration i
VColumn(ii) == ii + 1

\* the row U's loop writes in iteration j
URow(jj) == jj + 1

\* (P[i+2, j, t] - P[i, j, t]) / (2 * a / xdim)
VValue(ii, jj, tt) ==
    RatDivInt(RatSub(P.data[<<ii + 2, jj, tt>>], P.data[<<ii, jj, tt>>]),
              IntDiv(2 * a, args.xdim))

\* -(P[i, j+2, t] - P[i, j, t]) / (2 * b / ydim)
UValue(ii, jj, tt) ==
    RatDivInt(RatNeg(RatSub(P.data[<<ii, jj + 2, tt>>], P.data[<<ii, jj, tt>>])),
              IntDiv(2 * b, args.ydim))

\* the head of stommel_grid: axes, arrays, constants
StommelSetup ==
    /\ script = "stommel_grid"
    /\ pc = "call"
    /\ IF LinspaceRaises(args.xdim, args.ydim)
       THEN /\ pc' = "ValueError"
            /\ UNCHANGED <<lon, lat, time, U, V, P, t, i, writes>>
       ELSE LET ti    == Linspace(0, StommelDays, 2)
                lo    == Linspace(0, a, args.xdim)
                la    == Linspace(0, b, args.ydim)
                shape == FieldShape(lo, la, ti)
            IN  /\ time' = ti
                /\ lon' = lo
                /\ lat' = la
                /\ U' = Zeros(shape)
                /\ V' = Zeros(shape)
                /\ P' = Zeros(shape)
                /\ writes' = CountsFor(shape)
                /\ t' = 0
                /\ i' = 0
                /\ pc' = "for_t"
    /\ UNCHANGED <<script, fetchVars, multiVars, args, xs, ys, grid>>

\* for t in range(time.size)
ForT ==
    /\ script \in {"stommel_grid", "stommel_grid_example"}
    /\ pc = "for_t"
    /\ \/ /\ t < Len(time)
          /\ pc' = IF script = "stommel_grid" THEN "P" ELSE "UV"
       \/ /\ t = Len(time)
          /\ pc' = "from_data"
    /\ i' = 0
    /\ UNCHANGED <<script, fetchVars, multiVars,
                   args, xs, ys, lon, lat, time, U, V, P, t, writes, grid>>

\* one iteration of "for i in range(lon.size)", with its loop over j: row i of P
FillP ==
    /\ script = "stommel_grid"
    /\ pc = "P"
    /\ \/ /\ i < Len(lon)
          /\ LET cs == {c \in DOMAIN P.data : c[1] = i /\ c[3] = t} IN
             /\ P' = [P EXCEPT !.data =
                        [c \in DOMAIN @ |-> IF c \in cs THEN Psi(c[1], c[2]) ELSE @[c]]]
             /\ writes' = Count("P", cs)
          /\ i' = i + 1
          /\ pc' = "P"
       \/ /\ i = Len(lon)
          /\ i' = 0
          /\ pc' = "V"
          /\ UNCHANGED <<P, writes>>
    /\ UNCHANGED <<script, fetchVars, multiVars,
                   args, xs, ys, lon, lat, time, U, V, t, grid>>

\* one iteration of "for i in range(lon.size-2)", with its loop over j
DiffV ==
    /\ script = "stommel_grid"
    /\ pc = "V"
    /\ \/ /\ i < Len(lon) - 2
          /\ LET cs == {c \in DOMAIN V.data : c[1] = VColumn(i) /\ c[3] = t} IN
             /\ V' = [V EXCEPT !.data =
                        [c \in DOMAIN @ |-> IF c \in cs THEN VValue(i, c[2], t) ELSE @[c]]]
             /\ writes' = Count("V", cs)
          /\ i' = i + 1
          /\ pc' = "V"
       \/ /\ i >= Len(lon) - 2
          /\ i' = 0
          /\ pc' = "U"
          /\ UNCHANGED <<V, writes>>
    /\ UNCHANGED <<script, fetchVars, multiVars,
                   args, xs, ys, lon, lat, time, U, P, t, grid>>

\* one iteration of "for i in range(lon.size)", with its loop
\* "for j in range(lat.size-2)"; after the last one the t loop goes on
DiffU ==
    /\ script = "stommel_grid"
    /\ pc = "U"
    /\ \/ /\ i < Len(lon)
          /\ LET cs == {c \in DOMAIN U.data :
                           /\ c[1] = i /\ c[3] = t
                           /\ \E j \in 0..(Len(lat) - 3) : c[2] = URow(j)} IN
             /\ U' = [U EXCEPT !.data =
                        [c \in DOMAIN @ |->
                            IF c \in cs THEN UValue(i, c[2] - 1, t) ELSE @[c]]]
             /\ writes' = Count("U", cs)
          /\ i' = i + 1
          /\ pc' = "U"
          /\ UNCHANGED t
       \/ /\ i = Len(lon)
          /\ i' = 0
          /\ t' = t + 1
          /\ pc' = "for_t"
          /\ UNCHANGED <<U, writes>>
    /\ UNCHANGED <<script, fetchVars, multiVars,
                   args, xs, ys, lon, lat, time, V, P, grid>>

----------------------------------------------------------------------------
(* examples/test_stommel.py: stommel_grid, the boundary-layer form *)

ExampleExtent == 60

\* -(1 - exp(-lon[i]*pi/180/e_s) - lon[i]*pi/180) * pi**2 * cos(pi**2*lat[j]/180):
\* a factor in lon[i] (the sample xs[i]) times a factor in lat[j] (ys[j])
ExampleU(ii, jj) == Quot(-(xs[ii + 1] * ys[jj + 1]), 1)

\* (exp(-lon[i]*pi/180/e_s)/e_s - 1) * pi * sin(pi**2*lat[j]/180)
ExampleV(ii, jj) == Quot(xs[ii + 1] * ys[jj + 1], 1)

\* the head of stommel_grid: axes and arrays (no P), constants
ExampleSetup ==
    /\ script = "stommel_grid_example"
    /\ pc = "call"
    /\ IF LinspaceRaises(args.xdim, args.ydim)
       THEN /\ pc' = "ValueError"
            /\ UNCHANGED <<lon, lat, time, U, V, t, i, writes>>
       ELSE LET ti    == Linspace(0, StommelDays, 2)
                lo    == Linspace(0, ExampleExtent, args.xdim)
                la    == Linspace(0, ExampleExtent, args.ydim)
                shape == FieldShape(lo, la, ti)
            IN  /\ time' = ti
                /\ lon' = lo
                /\ lat' = la
                /\ U' = Zeros(shape)
                /\ V' = Zeros(shape)
                /\ writes' = CountsFor(shape)
                /\ t' = 0
                /\ i' = 0
                /\ pc' = "for_t"
    /\ UNCHANGED <<script, fetchVars, multiVars, args, xs, ys, P, grid>>

\* one iteration of "for i in range(lon.size)", with its loop over j; after the
\* last one the t loop goes on
FillUV ==
    /\ script = "stommel_grid_example"
    /\ pc = "UV"
    /\ \/ /\ i < Len(lon)
          /\ LET cs == {c \in DOMAIN U.data : c[1] = i /\ c[3] = t} IN
             /\ U' = [U EXCEPT !.data =
                        [c \in DOMAIN @ |-> IF c \in cs THEN ExampleU(c[1], c[2]) ELSE @[c]]]
             /\ V' = [V EXCEPT !.data =
                        [c \in DOMAIN @ |-> IF c \in cs THEN ExampleV(c[1], c[2]) ELSE @[c]]]
             /\ writes' = [Count("U", cs) EXCEPT !["V"] =
                             [c \in DOMAIN @ |-> IF c \in cs THEN @[c] + 1 ELSE @[c]]]
          /\ i' = i + 1
          /\ pc' = "UV"
          /\ UNCHANGED t
       \/ /\ i = Len(lon)
          /\ i' = 0
          /\ t' = t + 1
          /\ pc' = "for_t"
          /\ UNCHANGED <<U, V, writes>>
    /\ UNCHANGED <<script, fetchVars, multiVars,
                   args, xs, ys, lon, lat, time, P, grid>>

\* return Grid.from_data(U, lon, lat, V, lon, lat, depth, time, ...), with
\* field_data={'P': P} (and mesh='flat') in tests/test_stommel.py only
ReturnGrid ==
    /\ script \in {"stommel_grid", "stommel_grid_example"}
    /\ pc = "from_data"
    /\ grid' = FromData(U, lon, lat, V, lon, lat, <<Zero>>, time,
                        IF script = "stommel_grid" THEN [n \in {"P"} |-> P] ELSE <<>>)
    /\ pc' = "returned"
    /\ UNCHANGED <<script, fetchVars, multiVars,
                   args, xs, ys, lon, lat, time, U, V, P, t, i, writes>>

\* the values a sample of a closed form takes: zero (as sin(0) on the southern
\* edge) or not
SampleValues == {0, 1}

\* the calls the model makes: dimensions from -1 to MaxDim; simple_grid with
\* ndays and startday from -1 up; the stommel grids with every sample table
Samples(n) == [1..(IF n < 0 THEN 0 ELSE n) -> SampleValues]

SynthInit ==
    /\ \E xdim \in -1..MaxDim, ydim \in -1..MaxDim :
          \/ /\ script = "simple_grid"
             /\ \E ndays \in -1..MaxDays, startday \in -1..MaxStart :
                   args = [xdim |-> xdim, ydim |-> ydim, ndays |-> ndays,
                           startday |-> startday]
             /\ xs = <<>>
             /\ ys = <<>>
          \/ /\ script \in {"stommel_grid", "stommel_grid_example"}
             /\ args = [xdim |-> xdim, ydim |-> ydim, ndays |-> 0, startday |-> 0]
             /\ xs \in Samples(xdim)
             /\ ys \in Samples(ydim)
    /\ pc = "call"
    /\ lon = <<>>
    /\ lat = <<>>
    /\ time = <<>>
    /\ U = Zeros(<<0, 0, 0>>)
    /\ V = Zeros(<<0, 0, 0>>)
    /\ P = Zeros(<<0, 0, 0>>)
    /\ t = 0
    /\ i = 0
    /\ writes = NoWrites
    /\ grid = NoGrid

SynthIdle ==
    /\ args = [xdim |-> 0, ydim |-> 0, ndays |-> 0, startday |-> 0]
    /\ xs = <<>>
    /\ ys = <<>>
    /\ lon = <<>>
    /\ lat = <<>>
    /\ time = <<>>
    /\ U = Zeros(<<0, 0, 0>>)
    /\ V = Zeros(<<0, 0, 0>>)
    /\ P = Zeros(<<0, 0, 0>>)
    /\ t = 0
    /\ i = 0
    /\ writes = NoWrites
    /\ grid = NoGrid

SynthNext ==
    \/ CallSimpleGrid
    \/ StommelSetup
    \/ ForT
    \/ FillP
    \/ DiffV
    \/ DiffU
    \/ ExampleSetup
    \/ FillUV
    \/ ReturnGrid

----------------------------------------------------------------------------
(* tests/test_multi_filename.py: multi_filename *)

numfiles == 6

\* A file name basename + VARNAME + ".nc" with basename = stem + str(n) is the
\* triple <<stem, n, VARNAME>>; the glob pattern stem + "*" + VARNAME + ".nc" is
\* the pair <<stem, VARNAME>>.
Glob(pattern, files) ==
    {name \in DOMAIN files : name[1] = pattern[1] /\ name[3] = pattern[2]}

\* sorted(names): by the digit of the name
RECURSIVE Sorted(_)
Sorted(names) ==
    IF names = {} THEN <<>>
    ELSE LET first == CHOOSE n \in names : \A m \in names : n[2] <= m[2]
         IN  <<first>> \o Sorted(names \ {first})

\* grid.write(basename): one file basename + VARNAME + ".nc" for each field,
\* holding the field with its axes
GridWrite(files, basename, g) ==
    LET fields == [n \in {"U", "V"} \cup DOMAIN g.field_data |->
                      IF n = "U" THEN g.U ELSE IF n = "V" THEN g.V ELSE g.field_data[n]]
        new == [name \in {<<basename[1], basename[2], n>> : n \in DOMAIN fields} |->
                   [field |-> fields[name[3]], lon |-> g.lonU, lat |-> g.latU,
                    depth |-> g.depth, time |-> g.time]]
    IN  new @@ files

\* the time slices of the files in order: <<position of the file, local index>>
RECURSIVE Slices(_, _, _)
Slices(files, names, k) ==
    IF k > Len(names) THEN <<>>
    ELSE [n \in 1..Len(files[names[k]].time) |-> <<k, n>>] \o Slices(files, names, k + 1)

\* the files of one field joined along the time axis
Combined(files, names) ==
    LET sl    == Slices(files, names, 1)
        first == files[names[1]]
        shape == <<first.field.shape[1], first.field.shape[2], Len(sl)>>
    IN  [time  |-> [n \in 1..Len(sl) |-> files[names[sl[n][1]]].time[sl[n][2]]],
         field |-> [shape |-> shape,
                    data |-> [c \in Cells(shape) |->
                                files[names[sl[c[3] + 1][1]]].field.data[
                                    <<c[1], c[2], sl[c[3] + 1][2] - 1>>]]],
         lon   |-> first.lon,
         lat   |-> first.lat,
         depth |-> first.depth]

\* Grid.from_netcdf(filenames, variables, dimensions): a new grid handle read
\* from the files the glob patterns match; the grid it is called on is not changed
FromNetcdf(files, filenames) ==
    LET u == Combined(files, Sorted(Glob(filenames["U"], files)))
        v == Combined(files, Sorted(Glob(filenames["V"], files)))
    IN  FromData(u.field, u.lon, u.lat, v.field, v.lon, v.lat, u.depth, u.time, <<>>)

\* filenames = {'U': "multi_filename*U.nc", 'V': "multi_filename*V.nc"}
MultiFilenames == [n \in {"U", "V"} |-> <<"multi_filename", n>>]

\* for t in range(numfiles): filename = 'multi_filename'+str(t);
\* grid = simple_grid(ndays=1, startday=t). The mode parameter of
\* multi_filename is not used by its body.
MultiFor ==
    /\ script = "multi_filename"
    /\ pc = "for_file"
    /\ \/ /\ t < numfiles
          /\ grid' = SimpleGrid(GridXdim, GridYdim, 1, t)
          /\ pc' = "write"
       \/ /\ t = numfiles
          /\ pc' = "from_netcdf"
          /\ UNCHANGED grid
    /\ UNCHANGED <<script, fetchVars, multiVars,
                   args, xs, ys, lon, lat, time, U, V, P, t, i, writes>>

\* grid.write(filename), and the next iteration
MultiWrite ==
    /\ script = "multi_filename"
    /\ pc = "write"
    /\ disk' = GridWrite(disk, <<"multi_filename", t>>, grid)
    /\ t' = t + 1
    /\ pc' = "for_file"
    /\ UNCHANGED <<script, fetchVars, loaded,
                   args, xs, ys, lon, lat, time, U, V, P, i, writes, grid>>

\* grid.from_netcdf(filenames, variables, dimensions): an expression statement,
\* its value is bound to no name
MultiFromNetcdf ==
    /\ script = "multi_filename"
    /\ pc = "from_netcdf"
    /\ loaded' = FromNetcdf(disk, MultiFilenames)
    /\ pc' = "assert"
    /\ UNCHANGED <<script, fetchVars, disk, synthVars>>

\* assert(grid.time.size == numfiles)
MultiAssert ==
    /\ script = "multi_filename"
    /\ pc = "assert"
    /\ pc' = IF Len(grid.time) = numfiles THEN "passed" ELSE "AssertionError"
    /\ UNCHANGED <<script, fetchVars, multiVars, synthVars>>

MultiNext ==
    \/ MultiFor
    \/ MultiWrite
    \/ MultiFromNetcdf
    \/ MultiAssert

----------------------------------------------------------------------------
Init ==
    \/ /\ script = "pull_data"
       /\ pc = "enter"
       /\ FetchInit
       /\ SynthIdle
       /\ disk = <<>>
       /\ loaded = NoGrid
    \/ /\ SynthInit
       /\ FetchInit
       /\ disk = <<>>
       /\ loaded = NoGrid
    \/ /\ script = "multi_filename"
       /\ pc = "for_file"
       /\ FetchInit
       /\ SynthIdle
       /\ disk = <<>>
       /\ loaded = NoGrid

Next ==
    \/ FetchNext
    \/ SynthNext
    \/ MultiNext

Spec == Init /\ [][Next]_vars

----------------------------------------------------------------------------
(* Claims about scripts/pull_data.py *)

FilesOf(f) == Range(Filenames(f))
InFunction == script = "pull_data" /\ pc \in {"for", "urlopen", "open", "read", "write", "return", "crashed"}
AllExistedAtEntry == \A n \in FilesOf(fn) : fs0[n] # "absent"

\* C1: an import function entered with every file of its list present makes no
\* urlopen call and leaves the content of every one of its files as it was.
C1_Idempotent ==
    (InFunction /\ AllExistedAtEntry)
        => \A n \in FilesOf(fn) : reqs[n] = 0 /\ fs[n] = fs0[n]

\* C1's case: a whole run of __main__ that found every file of every list and
\* has reached the end of the last import function.
C1_Witness ==
    /\ script = "pull_data"
    /\ pc = "return"
    /\ fn = Len(MainSequence)
    /\ skipped = AllFiles
    /\ AllExistedAtEntry

\* C7: once the request or the write of the k-th file of import function fn has
\* failed, the process has ended there (the error left the import function), the
\* file was requested at most once, no later file of the list and no file of a
\* later import function was requested, no later import function was entered,
\* and each file before position k holds the download this run completed or
\* what it held when the function was entered.
C7_FailureIsFatal ==
    (script = "pull_data" /\ failedAt # <<>>) =>
        LET f == failedAt[1]
            k == failedAt[2]
        IN  /\ pc = "crashed" /\ fn = f /\ filecount = k
            /\ k >= 1 => reqs[Filenames(f)[k]] <= 1
            /\ \A j \in (k + 1)..Len(Filenames(f)) : reqs[Filenames(f)[j]] = 0
            /\ \A g \in (f + 1)..Len(MainSequence) :
                  g \notin started /\ \A n \in FilesOf(g) : reqs[n] = 0
            /\ \A j \in 1..(k - 1) :
                  fs[Filenames(f)[j]] =
                      IF reqs[Filenames(f)[j]] = 1 THEN "complete" ELSE fs0[Filenames(f)[j]]

\* C7's case: the download of the second file of a list failed after the first
\* file of the list was downloaded by the same run.
C7_Witness ==
    /\ script = "pull_data"
    /\ pc = "crashed"
    /\ failedAt # <<>>
    /\ failedAt[2] = 2
    /\ reqs[Filenames(fn)[1]] = 1
    /\ reqs[Filenames(fn)[2]] = 1
    /\ fs[Filenames(fn)[1]] = "complete"

\* C10: between runs every listed file that exists holds the complete download,
\* and no run skips, as already present, a file that is empty or partial.
C10_NoPartialFile ==
    script = "pull_data" =>
        /\ pc \in {"done", "crashed"} => \A n \in AllFiles : fs[n] \in {"absent", "complete"}
        /\ \A n \in skipped : fs[n] = "complete"

\* what holds instead: a file a run reports as already present is not requested
\* by that run and keeps the content it had, complete or not
PartialOnlyFromFailure ==
    script = "pull_data" =>
        \A n \in skipped : reqs[n] = 0 /\ fs[n] = fs0[n]

----------------------------------------------------------------------------
(* Claims about the grid synthesizers *)

Synthesizers == {"simple_grid", "stommel_grid", "stommel_grid_example"}
ValidDims == args.xdim >= 3 /\ args.ydim >= 3

\* C2: when multi_filename asserts, the grid it asserts on is the combined grid
\* from_netcdf read back, and its time axis has numfiles samples.
C2_AssertsOnCombinedGrid ==
    (script = "multi_filename" /\ pc \in {"assert", "passed", "AssertionError"})
        => grid = loaded /\ Len(grid.time) = numfiles

\* what holds instead: the combined grid has numfiles time samples, and the
\* test asserts on the last single-day grid
CombinedGridDiscarded ==
    (script = "multi_filename" /\ pc \in {"assert", "passed", "AssertionError"})
        => /\ Len(loaded.time) = numfiles
           /\ loaded.U.shape = <<GridXdim, GridYdim, numfiles>>
           /\ \A c \in DOMAIN loaded.U.data : loaded.U.data[c] = Quot(c[3], 1)
           /\ grid = SimpleGrid(GridXdim, GridYdim, 1, numfiles - 1)
           /\ pc # "passed"

\* C3: in the streamfunction form with xdim, ydim >= 3, rows 0 and ydim-1 of U
\* and columns 0 and xdim-1 of V are zero at every time index, at every step of
\* the computation and in the grid returned.
C3_BoundaryZero ==
    (script = "stommel_grid" /\ ValidDims) =>
        LET ZeroEdges(u, v) ==
                /\ \A c \in DOMAIN u.data :
                      c[2] \in {0, args.ydim - 1} => u.data[c] = Zero
                /\ \A c \in DOMAIN v.data :
                      c[1] \in {0, args.xdim - 1} => v.data[c] = Zero
        IN  /\ ZeroEdges(U, V)
            /\ pc = "returned" =>
                  /\ ZeroEdges(grid.U, grid.V)
                  /\ DOMAIN grid.U.data = Cells(<<args.xdim, args.ydim, 2>>)
                  /\ DOMAIN grid.V.data = Cells(<<args.xdim, args.ydim, 2>>)

\* C3's case: a returned 3 x 3 grid whose interior velocities are not zero.
C3_Witness ==
    /\ script = "stommel_grid"
    /\ pc = "returned"
    /\ ValidDims
    /\ \E c \in DOMAIN grid.V.data : grid.V.data[c] # Zero
    /\ \E c \in DOMAIN grid.U.data : grid.U.data[c] # Zero

\* C4: in the grid simple_grid returns, U[i, j, t] is time[t]/86400, that is
\* startday + t, at every (i, j), and V and P are zero everywhere.
C4_SimpleFieldValues ==
    (script = "simple_grid" /\ pc = "returned") =>
        /\ \A c \in DOMAIN grid.U.data :
              /\ grid.U.data[c] = <<args.startday + c[3], 1>>
              /\ grid.U.data[c][1] * SecondsPerDay = grid.time[c[3] + 1][1]
              /\ grid.time[c[3] + 1][2] = 1
        /\ \A c \in DOMAIN grid.V.data : grid.V.data[c] = Zero
        /\ \A c \in DOMAIN grid.field_data["P"].data : grid.field_data["P"].data[c] = Zero
        /\ DOMAIN grid.U.data = Cells(grid.U.shape)
        /\ DOMAIN grid.V.data = DOMAIN grid.U.data
        /\ DOMAIN grid.field_data["P"].data = DOMAIN grid.U.data

\* C4's case: a returned grid of several cells and several days, startday > 0.
C4_Witness ==
    /\ script = "simple_grid"
    /\ pc = "returned"
    /\ args.xdim >= 2 /\ args.ydim >= 2 /\ args.ndays >= 2 /\ args.startday >= 1
    /\ <<1, 1, 1>> \in DOMAIN grid.U.data

\* the time axis of simple_grid(ndays, startday): ndays samples, the first at
\* startday*86400, 86400 apart
DailyAxis(ti, ndays, startday) ==
    /\ Len(ti) = ndays
    /\ ti[1] = <<startday * SecondsPerDay, 1>>
    /\ \A k \in 1..(ndays - 1) : RatSub(ti[k + 1], ti[k]) = <<SecondsPerDay, 1>>

\* C5: for ndays >= 1 and startday >= 0 the time axis of simple_grid has ndays
\* samples, starts at startday*86400 and steps by 86400; the single-day grids
\* multi_filename writes for startday = 0, 1, ... carry one time value each,
\* strictly increasing with startday.
C5_TimeAxis ==
    /\ (script = "simple_grid" /\ pc = "returned" /\ args.ndays >= 1 /\ args.startday >= 0)
          => DailyAxis(grid.time, args.ndays, args.startday)
    /\ (script = "multi_filename" /\ pc = "write") => DailyAxis(grid.time, 1, t)
    /\ script = "multi_filename" =>
          /\ \A n \in 0..(t - 1), var \in {"U", "V", "P"} :
                /\ <<"multi_filename", n, var>> \in DOMAIN disk
                /\ Len(disk[<<"multi_filename", n, var>>].time) = 1
          /\ \A n1 \in DOMAIN disk, n2 \in DOMAIN disk :
                n1[2] < n2[2] => RatLess(disk[n1].time[1], disk[n2].time[1])

\* C5's case: a returned grid of three days that starts on day 2.
C5_Witness ==
    /\ script = "simple_grid"
    /\ pc = "returned"
    /\ args.ndays = 3
    /\ args.startday = 2
    /\ Len(grid.time) = 3

\* C6: a synthesizer called with a non-positive xdim or ydim ends in an error
\* and returns no grid.
C6_FailFast ==
    (script \in Synthesizers /\ pc \in {"returned", "ValueError"}
                             /\ (args.xdim <= 0 \/ args.ydim <= 0))
        => pc = "ValueError"

\* what holds instead: only a negative dimension is refused (by np.linspace)
OnlyNegativeRefused ==
    (script \in Synthesizers /\ pc \in {"returned", "ValueError"})
        => (pc = "ValueError" <=> (args.xdim < 0 \/ args.ydim < 0))

\* C8: U, V and the fields of field_data handed to Grid.from_data all have the
\* shape (xdim, ydim, tdim), tdim the length of the time axis, and U and V are
\* given the same lon and lat axes.
C8_SharedShape ==
    (script \in Synthesizers /\ pc = "returned") =>
        LET shape == <<args.xdim, args.ydim, Len(grid.time)>> IN
        /\ grid.U.shape = shape /\ DOMAIN grid.U.data = Cells(shape)
        /\ grid.V.shape = shape /\ DOMAIN grid.V.data = Cells(shape)
        /\ \A n \in DOMAIN grid.field_data :
              /\ grid.field_data[n].shape = shape
              /\ DOMAIN grid.field_data[n].data = Cells(shape)
        /\ grid.lonU = grid.lonV /\ Len(grid.lonU) = args.xdim
        /\ grid.latU = grid.latV /\ Len(grid.latU) = args.ydim

\* C8's case: a returned grid with P, xdim # ydim and axes that differ.
C8_Witness ==
    /\ script = "stommel_grid"
    /\ pc = "returned"
    /\ args.xdim = 2
    /\ args.ydim = 3
    /\ "P" \in DOMAIN grid.field_data
    /\ grid.lonU # grid.latU

\* the centered differences of the returned grid, over the divisors dx and dy:
\* each interior cell written once, from the P of the grid
Stencil(dx, dy) ==
    LET p == grid.field_data["P"].data IN
    /\ \A c \in DOMAIN grid.V.data :
          c[1] \in 1..(args.xdim - 2) =>
              /\ grid.V.data[c] =
                    LET d == RatSub(p[<<c[1] + 1, c[2], c[3]>>], p[<<c[1] - 1, c[2], c[3]>>])
                    IN  Quot(d[1] * dx[2], d[2] * dx[1])
              /\ writes["V"][c] = 1
    /\ \A c \in DOMAIN grid.U.data :
          c[2] \in 1..(args.ydim - 2) =>
              /\ grid.U.data[c] =
                    LET d == RatSub(p[<<c[1], c[2] + 1, c[3]>>], p[<<c[1], c[2] - 1, c[3]>>])
                    IN  Quot(-d[1] * dy[2], d[2] * dy[1])
              /\ writes["U"][c] = 1
    /\ \A c \in DOMAIN p : writes["P"][c] = 1

\* C9: in the streamfunction form with xdim, ydim >= 3, every interior V is
\* (P[m+1, j, t] - P[m-1, j, t]) / (2a/xdim) and every interior U is
\* -(P[i, n+1, t] - P[i, n-1, t]) / (2b/ydim), the quotients 2a/xdim and 2b/ydim
\* being exact, each cell written once from the final P.
C9_InteriorVelocities ==
    (script = "stommel_grid" /\ pc = "returned" /\ ValidDims)
        => Stencil(Quot(2 * a, args.xdim), Quot(2 * b, args.ydim))

\* what holds instead: the same with the divisors rounded down to integers
FloorDividedStencil ==
    (script = "stommel_grid" /\ pc = "returned" /\ ValidDims)
        => Stencil(<<(2 * a) \div args.xdim, 1>>, <<(2 * b) \div args.ydim, 1>>)

====
